---- MODULE Spec2Model ----
(***************************************************************************)
(* Model of src/word_definitions/build.js: the converter that reads a      *)
(* line-delimited JSON dictionary dump, filters and aggregates its records *)
(* into the `words` object, and writes one sorted line per word to         *)
(* defs.json.                                                              *)
(*                                                                         *)
(* Strings that the code inspects character by character (the headword and *)
(* the keys of `words`) are sequences of UTF-16 code units.  Strings that  *)
(* the code only tests for truthiness or copies (pos, glosses) are TLA+    *)
(* strings; "" is the falsy one.  An optional property of a JSON object is *)
(* a sequence of length 0 (absent, reads as undefined) or 1 (present).     *)
(***************************************************************************)
EXTENDS Integers, Sequences, FiniteSets

VARIABLES
    inputExists,   \* fs.existsSync(input_file) at start-up
    pc,            \* "start" | "reading" | "draining" | "exited"
    exitCode,      \* the process exit status, meaningful once pc = "exited"
    lines,         \* the lines the readline interface has delivered so far
    rlClosed,      \* rl 'close' has fired, parser.end() was called
    parsed,        \* the records the parser has emitted so far, in order
    parserQueue,   \* the lines written to the parser and not yet parsed
    parserFailed,  \* the parser emitted 'error' and is destroyed
    written,       \* let written
    skipped,       \* let skipped
    writable,      \* let writable
    words,         \* const words = {}: key -> list of out_obj
    streamCreated, \* fs.createWriteStream("defs.json") has been called
    streamBuf,     \* lines handed to stream.write, not yet on disk
    fileExists,    \* defs.json exists on disk
    fileLines,     \* the complete lines of defs.json on disk
    shortWrite,    \* a write wrote less than its line and was taken as done
    fileCut        \* defs.json ends in the first bytes of a line, cut off

vars == <<inputExists, pc, exitCode, lines, rlClosed, parsed, parserQueue,
          parserFailed, written, skipped, writable, words, streamCreated,
          streamBuf, fileExists, fileLines, shortWrite, fileCut>>

\* the bytes on disk, unchanged by every step but a write
disk == <<shortWrite, fileCut>>

(***************************************************************************)
(* Bounds of the model.                                                    *)
(***************************************************************************)
MaxLines == 3
MaxSenses == 2
MaxGlosses == 2

(***************************************************************************)
(* Code units.                                                             *)
(***************************************************************************)
CodeLowerA == 97
CodeLowerZ == 122

\* "_tr", the suffix of `${word_json.word}_tr` and of /_tr$/
KeySuffix == <<95, 116, 114>>

(***************************************************************************)
(* Input domains.                                                          *)
(***************************************************************************)
\* headwords: "", "a", "ab", "b", "A"
InputWords == {<<>>, <<97>>, <<97, 98>>, <<98>>, <<65>>}
PosTags == {"noun", "verb"}
Glosses == {"", "g", "h"}

SeqsUpTo(S, n) == UNION {[1..k -> S] : k \in 0..n}
Opt(S) == {<<>>} \cup {<<v>> : v \in S}

GlossLists == SeqsUpTo(Glosses, MaxGlosses)
SenseObjects == [raw_glosses : Opt(GlossLists), glosses : Opt(GlossLists)]

\* what the records of the pipeline specification carry besides the word:
\* a noun with one gloss, a verb with no gloss at all, a noun whose gloss is
\* the empty string
PipelineBodies ==
    { [pos |-> "noun",
       senses |-> <<[raw_glosses |-> <<>>, glosses |-> << <<"g">> >>]>>],
      [pos |-> "verb",
       senses |-> <<[raw_glosses |-> <<>>, glosses |-> <<>>]>>],
      [pos |-> "noun",
       senses |-> <<[raw_glosses |-> <<>>, glosses |-> << <<"">> >>]>>] }

PipelineRecords ==
    { [word |-> w, pos |-> b.pos, senses |-> b.senses, etymology_text |-> <<>>] :
        w \in InputWords, b \in PipelineBodies }

\* a line is the sequence of JSON values it holds: one record, or none
\* (a line jsonlines gets no value from)
InputLines == {<<>>} \cup {<<r>> : r \in PipelineRecords}

DefsRecords ==
    [word : {<<97>>, <<65>>}, pos : PosTags,
     senses : SeqsUpTo(SenseObjects, MaxSenses),
     etymology_text : Opt({"e"})]

(***************************************************************************)
(* writeWord, the pure parts.                                              *)
(***************************************************************************)
\* /[^a-z]/.test(word)
SkipWord(word) ==
    \E i \in 1..Len(word) : word[i] < CodeLowerA \/ word[i] > CodeLowerZ

\* sense.raw_glosses || sense.glosses || []  (an array, even empty, is truthy)
SenseDefs(sense) ==
    IF sense.raw_glosses # <<>> THEN sense.raw_glosses[1]
    ELSE IF sense.glosses # <<>> THEN sense.glosses[1]
    ELSE <<>>

RECURSIVE FlatMap(_)
FlatMap(senses) ==
    IF senses = <<>> THEN <<>>
    ELSE SenseDefs(Head(senses)) \o FlatMap(Tail(senses))

\* const out_obj = { pos: ..., defs: ... }
BuildOutObj(word_json) ==
    [pos |-> word_json.pos, defs |-> FlatMap(word_json.senses)]

\* obj[name]: the property when the object has it, undefined otherwise
Prop(obj, name) == IF name \in DOMAIN obj THEN <<obj[name]>> ELSE <<>>

\* a || b for an optional string a
OrElse(a, b) == IF a # <<>> /\ a[1] # "" THEN a[1] ELSE b

\* if (!out_obj.defs.length) out_obj.defs.push(out_obj.etymology_text || ...)
WithoutFallback(out_obj) == out_obj
WithFallback(out_obj) ==
    IF Len(out_obj.defs) = 0
    THEN [out_obj EXCEPT !.defs =
            <<OrElse(Prop(out_obj, "etymology_text"), "No definition found")>>]
    ELSE out_obj

\* out_obj.defs.some(def => !def)
NeverFalsy(defs) == FALSE
HasFalsy(defs) == \E i \in 1..Len(defs) : defs[i] = ""

\* `${word_json.word}_tr`
WordKey(word) == word \o KeySuffix

\* words[word_key] = words[word_key] || []; words[word_key].push(out_obj)
AddWord(ws, key, out_obj) ==
    [k \in DOMAIN ws \cup {key} |->
        IF k = key
        THEN Append(IF key \in DOMAIN ws THEN ws[key] ELSE <<>>, out_obj)
        ELSE ws[k]]

(***************************************************************************)
(* The writer, the pure parts.                                             *)
(***************************************************************************)
\* a < b as Array.prototype.sort() compares strings: by code units
LexLess(a, b) ==
    \E i \in 1..(Len(a) + 1) :
        /\ i <= Len(b)
        /\ \A j \in 1..(i - 1) : a[j] = b[j]
        /\ (i > Len(a) \/ a[i] < b[i])

\* Object.keys(words).sort()
RECURSIVE SortKeys(_)
SortKeys(S) ==
    IF S = {} THEN <<>>
    ELSE LET m == CHOOSE x \in S : \A y \in S : x = y \/ LexLess(x, y)
         IN  <<m>> \o SortKeys(S \ {m})

\* key.replace(/_tr$/, '')
StripKey(key) ==
    LET n == Len(key)
        s == Len(KeySuffix)
    IN  IF n >= s /\ SubSeq(key, n - s + 1, n) = KeySuffix
        THEN SubSeq(key, 1, n - s)
        ELSE key

\* [key.replace(/_tr$/, ''), words[key]], the array one output line encodes
OutLine(ws, key) == <<StripKey(key), ws[key]>>

(***************************************************************************)
(* The process.                                                            *)
(***************************************************************************)
EmptyWords == [k \in {} |-> <<>>]

Init ==
    /\ inputExists \in BOOLEAN
    /\ pc = "start"
    /\ exitCode = 0
    /\ lines = <<>>
    /\ rlClosed = FALSE
    /\ parsed = <<>>
    /\ parserQueue = <<>>
    /\ parserFailed = FALSE
    /\ written = 0
    /\ skipped = 0
    /\ writable = 0
    /\ words = EmptyWords
    /\ streamCreated = FALSE
    /\ streamBuf = <<>>
    /\ fileExists = FALSE
    /\ fileLines = <<>>
    /\ shortWrite = FALSE
    /\ fileCut = FALSE

\* !fs.existsSync(input_file)
ExistsCheckOmitted == FALSE
InputMissing == ~inputExists

\* the existence check at load time, then the handlers are installed
Start ==
    /\ pc = "start"
    /\ IF InputMissing
       THEN pc' = "exited" /\ exitCode' = 1
       ELSE pc' = "reading" /\ UNCHANGED exitCode
    /\ UNCHANGED <<disk, inputExists, lines, rlClosed, parsed, parserQueue,
                   parserFailed, written, skipped, writable, words,
                   streamCreated, streamBuf, fileExists, fileLines>>

\* rl.on('line'): count the line and write it to the parser, which parses
\* it in the same call or later.  A destroyed parser takes the write and
\* does nothing with it.
Line ==
    /\ pc = "reading"
    /\ ~rlClosed
    /\ Len(lines) < MaxLines
    /\ \E line \in InputLines :
        /\ lines' = Append(lines, line)
        /\ writable' = writable + 1
        /\ parserQueue' = IF parserFailed THEN parserQueue
                          ELSE Append(parserQueue, line)
    /\ UNCHANGED <<disk, inputExists, pc, exitCode, rlClosed, parsed,
                   parserFailed, written, skipped, words, streamCreated,
                   streamBuf, fileExists, fileLines>>

\* the parser reaches a line that holds no value: it emits nothing for it,
\* or it emits 'error' and is destroyed with the lines behind it unparsed
NoValue ==
    /\ pc = "reading"
    /\ ~parserFailed
    /\ parserQueue # <<>>
    /\ Head(parserQueue) = <<>>
    /\ parserQueue' = Tail(parserQueue)
    /\ parserFailed' \in BOOLEAN
    /\ UNCHANGED <<disk, inputExists, pc, exitCode, lines, rlClosed, parsed,
                   written, skipped, writable, words, streamCreated,
                   streamBuf, fileExists, fileLines>>

\* the parser's 'error' has no listener: it is thrown, at the latest on the
\* next tick, and the process dies
Crash ==
    /\ pc = "reading"
    /\ parserFailed
    /\ pc' = "exited"
    /\ exitCode' = 1
    /\ UNCHANGED <<disk, inputExists, lines, rlClosed, parsed, parserQueue,
                   parserFailed, written, skipped, writable, words,
                   streamCreated, streamBuf, fileExists, fileLines>>

\* writeWord(word_json)
WriteWord(word_json) ==
    IF SkipWord(word_json.word)
    THEN /\ skipped' = skipped + 1
         /\ UNCHANGED <<written, words, pc, exitCode>>
    ELSE LET out_obj == WithFallback(BuildOutObj(word_json))
         IN  IF HasFalsy(out_obj.defs)
             THEN /\ pc' = "exited"
                  /\ exitCode' = 1
                  /\ UNCHANGED <<written, skipped, words>>
             ELSE /\ words' = AddWord(words, WordKey(word_json.word), out_obj)
                  /\ written' = written + 1
                  /\ UNCHANGED <<skipped, pc, exitCode>>

\* the read stream of the input has no 'error' listener: a read error (the
\* path is a directory, an I/O error) kills the process
ReadError ==
    /\ pc = "reading"
    /\ ~rlClosed
    /\ pc' = "exited"
    /\ exitCode' = 1
    /\ UNCHANGED <<disk, inputExists, lines, rlClosed, parsed, parserQueue,
                   parserFailed, written, skipped, writable, words,
                   streamCreated, streamBuf, fileExists, fileLines>>

\* parser.on('data'): the parser reaches a line that holds a record and
\* emits it, and the handler runs on it
Data ==
    /\ pc = "reading"
    /\ ~parserFailed
    /\ parserQueue # <<>>
    /\ Head(parserQueue) # <<>>
    /\ parserQueue' = Tail(parserQueue)
    /\ parsed' = Append(parsed, Head(parserQueue)[1])
    /\ WriteWord(Head(parserQueue)[1])
    /\ UNCHANGED <<disk, inputExists, lines, rlClosed, parserFailed,
                   writable, streamCreated, streamBuf, fileExists, fileLines>>

\* rl.on('close'): parser.end()
Close ==
    /\ pc = "reading"
    /\ ~rlClosed
    /\ rlClosed' = TRUE
    /\ UNCHANGED <<disk, inputExists, pc, exitCode, lines, parsed, parserQueue,
                   parserFailed, written, skipped, writable, words,
                   streamCreated, streamBuf, fileExists, fileLines>>

\* the parser emits 'end' once it was ended and every line written to it
\* was parsed and its record delivered;
\* a destroyed parser emits none
EndedOnClose == rlClosed
ParserDrained == rlClosed /\ ~parserFailed /\ parserQueue = <<>>

\* parser.on('end'): sort, hand every line to the stream, check the counts
End ==
    /\ pc = "reading"
    /\ ParserDrained
    /\ LET keys == SortKeys(DOMAIN words)
       IN  /\ streamCreated' = TRUE
           /\ streamBuf' = [i \in 1..Len(keys) |-> OutLine(words, keys[i])]
           /\ IF written + skipped # writable
              THEN \* process.exit(1) in the same tick as the stream.write
                   \* calls: nothing was written, the open may have started
                   /\ pc' = "exited"
                   /\ exitCode' = 1
                   /\ fileExists' \in BOOLEAN
              ELSE /\ pc' = "draining"
                   /\ UNCHANGED <<exitCode, fileExists>>
    /\ UNCHANGED <<disk, inputExists, lines, rlClosed, parsed, parserQueue,
                   parserFailed, written, skipped, writable, words, fileLines>>

\* the write stream opens defs.json
Open ==
    /\ pc = "draining"
    /\ ~fileExists
    /\ fileExists' = TRUE
    /\ UNCHANGED <<disk, inputExists, pc, exitCode, lines, rlClosed, parsed,
                   parserQueue, parserFailed, written, skipped, writable,
                   words, streamCreated, streamBuf, fileLines>>

\* the write stream writes its next buffered line.  The write may fall short
\* (the file may not grow further) and still be taken as done: the line is
\* then missing or cut, and nothing that follows reaches the disk.
Flush ==
    /\ pc = "draining"
    /\ fileExists
    /\ streamBuf # <<>>
    /\ streamBuf' = Tail(streamBuf)
    /\ IF shortWrite
       THEN UNCHANGED <<fileLines, shortWrite, fileCut>>
       ELSE \/ /\ fileLines' = Append(fileLines, Head(streamBuf))
               /\ UNCHANGED <<shortWrite, fileCut>>
            \/ /\ shortWrite' = TRUE
               /\ fileCut' \in BOOLEAN
               /\ UNCHANGED fileLines
    /\ UNCHANGED <<inputExists, pc, exitCode, lines, rlClosed, parsed,
                   parserQueue, parserFailed, written, skipped, writable,
                   words, streamCreated, fileExists>>

\* the write stream has no 'error' listener: a failed open or write kills
\* the process, what is on disk stays
WriteError ==
    /\ pc = "draining"
    /\ pc' = "exited"
    /\ exitCode' = 1
    /\ UNCHANGED <<disk, inputExists, lines, rlClosed, parsed, parserQueue,
                   parserFailed, written, skipped, writable, words,
                   streamCreated, streamBuf, fileExists, fileLines>>

\* stream.end() completes, nothing is left to do: the process exits with 0
Finish ==
    /\ pc = "draining"
    /\ fileExists
    /\ streamBuf = <<>>
    /\ pc' = "exited"
    /\ exitCode' = 0
    /\ UNCHANGED <<disk, inputExists, lines, rlClosed, parsed, parserQueue,
                   parserFailed, written, skipped, writable, words,
                   streamCreated, streamBuf, fileExists, fileLines>>

Next ==
    \/ Start \/ Line \/ NoValue \/ Crash \/ ReadError \/ Data \/ Close \/ End
    \/ Open \/ Flush \/ WriteError \/ Finish

Spec == Init /\ [][Next]_vars

(***************************************************************************)
(* writeWord on one record: the record is the only line of the input.      *)
(***************************************************************************)
InitDefs ==
    /\ inputExists = TRUE
    /\ pc = "reading"
    /\ exitCode = 0
    /\ \E r \in DefsRecords :
          lines = <<<<r>>>> /\ parsed = <<>> /\ parserQueue = <<<<r>>>>
    /\ parserFailed = FALSE
    /\ rlClosed = FALSE
    /\ written = 0
    /\ skipped = 0
    /\ writable = 1
    /\ words = EmptyWords
    /\ streamCreated = FALSE
    /\ streamBuf = <<>>
    /\ fileExists = FALSE
    /\ fileLines = <<>>
    /\ shortWrite = FALSE
    /\ fileCut = FALSE

SpecDefs == InitDefs /\ [][Data]_vars

(***************************************************************************)
(* Vocabulary of the properties.                                           *)
(***************************************************************************)
\* the records of the input that reached the parser's output, in file order
AllRecs == parsed

\* the records whose 'data' event has been delivered
NConsumed == Len(AllRecs)
Consumed == AllRecs

\* the lines of the input read so far that hold a record
RecordLines == SelectSeq(lines, LAMBDA l : l # <<>>)

\* the lines of the output, complete on disk or still buffered
Handed == fileLines \o streamBuf

\* ^[a-z]+$
IsLowerWord(word) ==
    /\ Len(word) >= 1
    /\ \A i \in 1..Len(word) : word[i] >= CodeLowerA /\ word[i] <= CodeLowerZ

\* the defs a record resolves to, and whether one of them is falsy
ResolvedDefs(r) == WithFallback(BuildOutObj(r)).defs
ResolvesFalsy(r) == \E i \in 1..Len(ResolvedDefs(r)) : ResolvedDefs(r)[i] = ""
Qualifies(r) == ~SkipWord(r.word) /\ ~ResolvesFalsy(r)

\* the qualifying records of recs whose word is w, in order
RECURSIVE QualifyingFor(_, _)
QualifyingFor(recs, w) ==
    IF recs = <<>> THEN <<>>
    ELSE (IF Head(recs).word = w /\ Qualifies(Head(recs))
          THEN <<Head(recs)>> ELSE <<>>) \o QualifyingFor(Tail(recs), w)

\* one Output Entry per qualifying record of recs whose word is w, in order
ExpectedEntries(recs, w) ==
    LET q == QualifyingFor(recs, w)
    IN  [i \in 1..Len(q) |-> [pos |-> q[i].pos, defs |-> ResolvedDefs(q[i])]]

WordsRead == {AllRecs[i].word : i \in 1..Len(AllRecs)}

\* the entries aggregated for w
EntriesOf(w) == IF WordKey(w) \in DOMAIN words THEN words[WordKey(w)] ELSE <<>>

\* the run ended through the normal exit, status 0
Completed == pc = "exited" /\ exitCode = 0

(***************************************************************************)
(* C1: on a run that completes without a fatal abort, the set of words     *)
(* written to the output is exactly the set of input words matching        *)
(* ^[a-z]+$; in particular the empty string is never written.  (Stated for  *)
(* the runs in which every write was whole.)                               *)
(***************************************************************************)
C1_OutputKeysAreLowerWords ==
    (Completed /\ ~shortWrite) =>
        {fileLines[i][1] : i \in 1..Len(fileLines)}
            = {w \in WordsRead : IsLowerWord(w)}

(***************************************************************************)
(* C2: the words written to the output are strictly ascending in code-unit *)
(* order, none twice, and every key of the Aggregation Map is written      *)
(* exactly once, under its unescaped name.                                 *)
(***************************************************************************)
C2_EveryKeyWrittenOnceAscending ==
    Completed =>
        /\ ~fileCut
        /\ \A i, j \in 1..Len(fileLines) :
              i < j => LexLess(fileLines[i][1], fileLines[j][1])
        /\ \A w \in WordsRead :
              EntriesOf(w) # <<>> =>
                  Cardinality({i \in 1..Len(fileLines) :
                                  fileLines[i][1] = w}) = 1
        /\ \A i \in 1..Len(fileLines) : EntriesOf(fileLines[i][1]) # <<>>

(***************************************************************************)
(* C3: the defs of a non-skipped record are the concatenation, over its    *)
(* senses in order, of raw_glosses when present and non-empty, else of     *)
(* glosses when present and non-empty, else of nothing.                    *)
(***************************************************************************)
ClaimedSenseDefs(sense) ==
    IF sense.raw_glosses # <<>> /\ sense.raw_glosses[1] # <<>>
    THEN sense.raw_glosses[1]
    ELSE IF sense.glosses # <<>> /\ sense.glosses[1] # <<>>
    THEN sense.glosses[1]
    ELSE <<>>

RECURSIVE ClaimedFlat(_)
ClaimedFlat(senses) ==
    IF senses = <<>> THEN <<>>
    ELSE ClaimedSenseDefs(Head(senses)) \o ClaimedFlat(Tail(senses))

C3_DefsConcatenateNonEmptyGlosses ==
    \A w \in WordsRead :
        \A j \in 1..Len(EntriesOf(w)) :
            LET r == QualifyingFor(Consumed, w)[j]
            IN  ClaimedFlat(r.senses) # <<>> =>
                    EntriesOf(w)[j].defs = ClaimedFlat(r.senses)

(***************************************************************************)
(* C4: when the flattened defs of a non-skipped record are empty, defs is  *)
(* the one-element sequence of its etymology_text when it has one, and     *)
(* ["No definition found"] only when it has none.                          *)
(***************************************************************************)
C4_FallbackUsesEtymology ==
    \A w \in WordsRead :
        \A j \in 1..Len(EntriesOf(w)) :
            LET r == QualifyingFor(Consumed, w)[j]
            IN  FlatMap(r.senses) = <<>> =>
                    EntriesOf(w)[j].defs =
                        IF r.etymology_text # <<>>
                        THEN <<r.etymology_text[1]>>
                        ELSE <<"No definition found">>

(***************************************************************************)
(* C5: every entry in the Aggregation Map, and every entry handed to the   *)
(* output, has a non-empty defs none of whose elements is falsy.           *)
(***************************************************************************)
GoodDefs(defs) == defs # <<>> /\ \A i \in 1..Len(defs) : defs[i] # ""

C5_DefsNonEmptyNonFalsy ==
    /\ \A k \in DOMAIN words :
          \A i \in 1..Len(words[k]) : GoodDefs(words[k][i].defs)
    /\ \A n \in 1..Len(Handed) :
          \A i \in 1..Len(Handed[n][2]) : GoodDefs(Handed[n][2][i].defs)

\* a record without any gloss was aggregated and is in the file
C5_Witness ==
    /\ fileLines # <<>>
    /\ \E i \in 1..Len(Consumed) :
          /\ Qualifies(Consumed[i])
          /\ FlatMap(Consumed[i].senses) = <<>>
          /\ \E n \in 1..Len(fileLines) : fileLines[n][1] = Consumed[i].word

(***************************************************************************)
(* C6: the entry list written for a word holds exactly one entry per       *)
(* qualifying record of that word, in input order, whatever lies between   *)
(* those records.                                                          *)
(***************************************************************************)
C6_WrittenEntriesInInputOrder ==
    Completed =>
        /\ ~fileCut
        /\ \A n \in 1..Len(fileLines) :
              fileLines[n][2] = ExpectedEntries(AllRecs, fileLines[n][1])
        /\ \A w \in WordsRead :
              ExpectedEntries(AllRecs, w) # <<>> =>
                  \E n \in 1..Len(fileLines) :
                      fileLines[n] = <<w, ExpectedEntries(AllRecs, w)>>

(***************************************************************************)
(* C7: when processed + skipped # ingested at the end of the run, the      *)
(* process exits non-zero with the output file present and holding one     *)
(* line per key of the Aggregation Map.                                    *)
(***************************************************************************)
C7_MismatchExitAfterOutputWritten ==
    (pc = "exited" /\ streamCreated /\ written + skipped # writable) =>
        /\ exitCode # 0
        /\ DOMAIN words # {} =>
              /\ fileExists
              /\ streamBuf = <<>>
              /\ Len(fileLines) = Cardinality(DOMAIN words)
              /\ \A k \in DOMAIN words :
                    \E n \in 1..Len(fileLines) :
                        fileLines[n] = OutLine(words, k)

(***************************************************************************)
(* C8: a non-skipped record that resolves to defs with a falsy element     *)
(* halts the run at that record with a non-zero status: the output file is *)
(* never created or written, the record is not aggregated, no later record *)
(* is processed.                                                           *)
(***************************************************************************)
C8_FalsyDefHaltsRun ==
    \A i \in 1..NConsumed :
        (~SkipWord(AllRecs[i].word) /\ ResolvesFalsy(AllRecs[i])) =>
            /\ pc = "exited"
            /\ exitCode # 0
            /\ i = NConsumed
            /\ written + skipped = i - 1
            /\ ~streamCreated
            /\ ~fileExists
            /\ Handed = <<>>
            /\ \A w \in WordsRead :
                  EntriesOf(w) = ExpectedEntries(SubSeq(AllRecs, 1, i - 1), w)

\* the run was halted by a falsy def after an earlier record was aggregated
C8_Witness ==
    /\ pc = "exited"
    /\ NConsumed >= 2
    /\ written >= 1
    /\ ~SkipWord(AllRecs[NConsumed].word)
    /\ ResolvesFalsy(AllRecs[NConsumed])

(***************************************************************************)
(* C9: when the input file does not exist, the process exits non-zero      *)
(* before any line is read, any record processed or any counter changed,   *)
(* and the output file is neither created nor written.                     *)
(***************************************************************************)
C9_MissingInputExitsFirst ==
    (~inputExists /\ pc # "start") =>
        /\ pc = "exited"
        /\ exitCode # 0
        /\ lines = <<>>
        /\ parsed = <<>>
        /\ parserQueue = <<>>
        /\ written = 0 /\ skipped = 0 /\ writable = 0
        /\ words = EmptyWords
        /\ ~streamCreated
        /\ ~fileExists
        /\ Handed = <<>>
        /\ ~shortWrite /\ ~fileCut

C9_Witness == ~inputExists /\ pc = "exited" /\ exitCode = 1

(***************************************************************************)
(* C10: the Aggregation Map changes only in the parse phase and only by    *)
(* one append to one key's list; a skip changes the skipped counter alone; *)
(* nothing is removed or altered; and when the writer starts every record  *)
(* of the input has been aggregated or skipped, none comes after.          *)
(***************************************************************************)
AppendsOneEntry ==
    \E k \in DOMAIN words' :
        /\ DOMAIN words' = DOMAIN words \cup {k}
        /\ \A k2 \in DOMAIN words : k2 # k => words'[k2] = words[k2]
        /\ LET old == IF k \in DOMAIN words THEN words[k] ELSE <<>>
           IN  /\ Len(words'[k]) = Len(old) + 1
               /\ SubSeq(words'[k], 1, Len(old)) = old

C10_MapGrowsOnlyWhileParsing ==
    [][ /\ words' # words =>
              /\ pc = "reading" /\ pc' = "reading"
              /\ ~streamCreated /\ ~streamCreated'
              /\ AppendsOneEntry
              /\ written' = written + 1
              /\ skipped' = skipped
        /\ skipped' # skipped =>
              /\ skipped' = skipped + 1
              /\ UNCHANGED <<words, written, writable, pc, exitCode,
                             streamCreated, streamBuf, fileExists, fileLines>>
        /\ streamCreated' =>
              UNCHANGED <<words, written, skipped, writable, lines>>
        /\ (~streamCreated /\ streamCreated') =>
              /\ rlClosed
              /\ parserQueue = <<>>
              /\ written + skipped = Len(AllRecs)
              /\ AllRecs = [i \in 1..Len(RecordLines) |-> RecordLines[i][1]]
      ]_vars

\* the writer ran after records were aggregated and skipped
C10_Witness ==
    /\ streamCreated
    /\ Handed # <<>>
    /\ written >= 2
    /\ skipped >= 1

====
